---- MODULE Spec2Model ----
(***************************************************************************)
(* Model of the supermarket cashier session of Cashier_object_detection.py *)
(* (run_cashier and is_same_object): the per-frame detection loop that     *)
(* keeps counts and seen_objects, and the final bill; and of the main loop  *)
(* of Eye_strain_detector.py: calibration, the too-close timer, the        *)
(* warning and the two waitKey calls of one iteration.                     *)
(***************************************************************************)
EXTENDS Integers, Sequences, FiniteSets, TLC

\* ------------------------------------------------------------------ bounds
\* frames the camera delivers in one session
MaxFrames == 3
\* detections the detector reports for one frame
MaxBatch == 2
\* detections processed over the whole session
MaxDetections == 4
\* repetitions of one detection tried by the re-detection check
MaxRepeat == 3

\* detections of one frame in the frame-level specification
MaxFrameBatch == 3
\* frames the eye-strain loop reads in one run
MaxEyeFrames == 4
\* largest reading of the clock, in seconds
MaxClock == 7
\* longest time between two frames, in seconds
MaxTick == 5

\* ------------------------------------------------------- program constants
PRICE_LIST ==
    [item \in {"apple", "banana", "orange", "bottle", "cup",
               "sandwich", "pizza", "donut", "cake"} |->
        CASE item = "apple"    -> 30
          [] item = "banana"   -> 10
          [] item = "orange"   -> 25
          [] item = "bottle"   -> 50
          [] item = "cup"      -> 40
          [] item = "sandwich" -> 50
          [] item = "pizza"    -> 80
          [] item = "donut"    -> 35
          [] item = "cake"     -> 100]

\* default of the threshold parameter of is_same_object
DefaultThreshold == 50

\* ------------------------------------------------------------------ values
\* A float is a pair <<numerator, denominator>>; <<0, 0>> is NaN.
Px(n) == <<n, 1>>
NaN == <<0, 0>>
IsNaN(v) == v[2] = 0

Abs(n) == IF n >= 0 THEN n ELSE -n

\* int(v) of a float that is not NaN: truncation toward zero
int(v) == IF v[1] >= 0 THEN v[1] \div v[2] ELSE -((-v[1]) \div v[2])

\* x1, y1, x2, y2 = map(int, box.xyxy[0]) succeeds: four values, none NaN
UnpackOk(xyxy) == Len(xyxy) = 4 /\ \A i \in 1..Len(xyxy) : ~IsNaN(xyxy[i])

\* new_box = (x1, y1, x2, y2)
IntBox(xyxy) == [i \in 1..4 |-> int(xyxy[i])]

\* unbound locals of run_cashier
NoName == "<unbound>"
NoBox == <<>>

\* ------------------------------------------------------- is_same_object
\* variant: <= in place of <
is_same_object_inclusive(box1, box2, threshold) ==
    /\ Abs((box1[1] + box1[3]) - (box2[1] + box2[3])) <= 2 * threshold
    /\ Abs((box1[2] + box1[4]) - (box2[2] + box2[4])) <= 2 * threshold

\* variant: a box is not the same object as a box with the same center
is_same_object_apart(box1, box2, threshold) ==
    /\ Abs((box1[1] + box1[3]) - (box2[1] + box2[3])) < 2 * threshold
    /\ Abs((box1[2] + box1[4]) - (box2[2] + box2[4])) < 2 * threshold
    /\ \/ box1[1] + box1[3] # box2[1] + box2[3]
       \/ box1[2] + box1[4] # box2[2] + box2[4]

\* variant: the sums x1 + x2 are compared, not the centers
is_same_object_unhalved(box1, box2, threshold) ==
    /\ Abs((box1[1] + box1[3]) - (box2[1] + box2[3])) < threshold
    /\ Abs((box1[2] + box1[4]) - (box2[2] + box2[4])) < threshold

\* The centers (x1 + x2) / 2 are true divisions; both sides of the
\* comparison are doubled here so that half pixels stay exact.
is_same_object(box1, box2, threshold) ==
    LET cx1 == box1[1] + box1[3]
        cy1 == box1[2] + box1[4]
        cx2 == box2[1] + box2[3]
        cy2 == box2[2] + box2[4]
    IN  Abs(cx1 - cx2) < 2 * threshold /\ Abs(cy1 - cy2) < 2 * threshold

\* ------------------------------------------------- counts (defaultdict(int))
\* counts is kept as the sequence of its <<key, value>> items in insertion
\* order, which is the order counts.items() yields.
HasKey(c, k) == \E i \in 1..Len(c) : c[i][1] = k
KeyIndex(c, k) == CHOOSE i \in 1..Len(c) : c[i][1] = k
Get(c, k) == IF HasKey(c, k) THEN c[KeyIndex(c, k)][2] ELSE 0

\* variant: counts[cls_name] = 1
IncrementSet1(c, k) ==
    IF HasKey(c, k)
    THEN [c EXCEPT ![KeyIndex(c, k)] = <<k, 1>>]
    ELSE Append(c, <<k, 1>>)

\* counts[cls_name] += 1
Increment(c, k) ==
    IF HasKey(c, k)
    THEN [c EXCEPT ![KeyIndex(c, k)] = <<k, c[KeyIndex(c, k)][2] + 1>>]
    ELSE Append(c, <<k, 0 + 1>>)

\* ------------------------------------------------ the detection loop body
\* for prev_cls, prev_box in seen_objects: ... break   (scan from entry i)
RECURSIVE ScanSeen(_, _, _, _)
ScanSeen(seen, cls, box, i) ==
    IF i > Len(seen) THEN FALSE
    ELSE IF seen[i][1] = cls /\ is_same_object(seen[i][2], box, DefaultThreshold)
         THEN TRUE
         ELSE ScanSeen(seen, cls, box, i + 1)

\* variant: only the entry stored last is compared
AlreadySeenLastOnly(seen, cls, box) ==
    /\ seen # <<>>
    /\ seen[Len(seen)][1] = cls
    /\ is_same_object(seen[Len(seen)][2], box, DefaultThreshold)

\* variant: the test prev_cls == cls_name is dropped
AlreadySeenAnyLabel(seen, cls, box) ==
    \E i \in 1..Len(seen) : is_same_object(seen[i][2], box, DefaultThreshold)

\* already_seen after the loop over seen_objects
AlreadySeen(seen, cls, box) == ScanSeen(seen, cls, box, 1)

\* variant: seen_objects.insert(0, ...)
ConfirmPrepend(st, cls, box) ==
    [counts |-> Increment(st.counts, cls),
     seen_objects |-> <<<<cls, box>>>> \o st.seen_objects]

\* if not already_seen: counts[cls_name] += 1; seen_objects.append(...)
Confirm(st, cls, box) ==
    [counts |-> Increment(st.counts, cls),
     seen_objects |-> Append(st.seen_objects, <<cls, box>>)]

\* variant: counts[cls_name] += 1 outside `if not already_seen`
UpdateCountAlways(st, cls, box) ==
    IF AlreadySeen(st.seen_objects, cls, box)
    THEN [st EXCEPT !.counts = Increment(st.counts, cls)]
    ELSE Confirm(st, cls, box)

\* variant: a matching detection overwrites the box of the entry it matched
UpdateMoveBox(st, cls, box) ==
    IF AlreadySeen(st.seen_objects, cls, box)
    THEN LET i == CHOOSE j \in 1..Len(st.seen_objects) :
                    /\ st.seen_objects[j][1] = cls
                    /\ is_same_object(st.seen_objects[j][2], box,
                                      DefaultThreshold)
                    /\ \A k \in 1..(j - 1) :
                          ~(/\ st.seen_objects[k][1] = cls
                            /\ is_same_object(st.seen_objects[k][2], box,
                                              DefaultThreshold))
         IN  [st EXCEPT !.seen_objects[i] = <<cls, box>>]
    ELSE Confirm(st, cls, box)

\* lines 52-60: the scan, then the conditional confirmation
Update(st, cls, box) ==
    IF AlreadySeen(st.seen_objects, cls, box) THEN st ELSE Confirm(st, cls, box)

\* variant: the price-list filter lets every label through
InPriceListAll(cls) == cls = cls

\* cls_name in PRICE_LIST
InPriceList(cls) == cls \in DOMAIN PRICE_LIST

\* the detection makes map(int, ...) or the unpacking raise ValueError
Raises(det) == InPriceList(det.cls) /\ ~UnpackOk(det.xyxy)

\* lines 43-60 for a detection that does not raise
Feed(st, det) ==
    IF InPriceList(det.cls) THEN Update(st, det.cls, IntBox(det.xyxy)) ELSE st

\* variant: subtotal = line_total
AccumulateOverwrite(sub, line_total) == line_total

\* subtotal += line_total
Accumulate(sub, line_total) == sub + line_total

\* ---------------------------------------------------------- input domain
BoxA     == <<Px(10), Px(10), Px(50), Px(50)>>
BoxA2    == << <<25, 2>>, <<119, 10>>, <<261, 5>>, <<517, 10>> >>
BoxFar   == <<Px(200), Px(200), Px(240), Px(240)>>
BoxAt50  == <<Px(60), Px(60), Px(100), Px(100)>>
BoxAt49  == <<Px(59), Px(59), Px(99), Px(99)>>
BoxBelow == <<Px(10), Px(200), Px(50), Px(240)>>
BoxNaN   == <<NaN, Px(10), Px(50), Px(50)>>
BoxShort == <<Px(10), Px(10), Px(50)>>

Det(c, b) == [cls |-> c, xyxy |-> b]

Detections ==
    {Det("apple", b) : b \in {BoxA, BoxA2, BoxFar, BoxAt50, BoxAt49, BoxBelow,
                              BoxNaN, BoxShort}}
    \cup {Det("cake", b) : b \in {BoxA, BoxFar}}
    \cup {Det("keyboard", b) : b \in {BoxA, BoxNaN}}

Batches(n) == UNION {[1..k -> Detections] : k \in 0..n}

Min(a, b) == IF a <= b THEN a ELSE b

\* ------------------------------------------- Eye_strain_detector.py values
\* CLOSE_FACTOR = 1.35, in hundredths
CLOSE_FACTOR_x100 == 135

SUSTAIN_SECONDS == 5

\* None, and a value that is not None
None == <<>>
Some(v) == <<v>>

\* waitKey(1) & 0xFF: 'q', 'c', another key, or no key within the wait
Keys == {"q", "c", "x", "none"}
QUIT_KEY == "q"
CALIBRATE_KEY == "c"

\* pixel distances the two eye landmarks can be measured at
IPDs == {100, 135, 136}

\* ipd_px > baseline_ipd * CLOSE_FACTOR
TooClose(ipd, baseline) == ipd * 100 > baseline * CLOSE_FACTOR_x100

\* variant: the warning repeats on every frame past the delay
ShouldWarnUnlatched(elapsed, shown) == elapsed >= SUSTAIN_SECONDS

\* elapsed >= SUSTAIN_SECONDS and not warning_shown
ShouldWarn(elapsed, shown) == elapsed >= SUSTAIN_SECONDS /\ ~shown

\* ------------------------------------------------------------------- state
VARIABLES
    pc,            \* position in run_cashier
    counts,        \* defaultdict(int), as its items in insertion order
    seen_objects,  \* list of (class, box)
    boxes,         \* r.boxes still to be visited in the current frame
    cls_name,      \* local: label of the detection visited last
    new_box,       \* local: box unpacked last
    already_seen,  \* local: outcome of the last scan of seen_objects
    subtotal,      \* local of the final bill
    printed,       \* receipt lines printed so far
    error,         \* exception that ended the program, or "none"
    frames,        \* frames read so far
    fed,           \* detections visited one by one so far
    last_batch,    \* history: r.boxes of the frame just processed, kept by
                   \* the frame-level specification until the next read
    \* Eye_strain_detector.py
    epc,             \* position in the main loop
    baseline_ipd,    \* None or the calibrated distance
    too_close_start, \* None or the time the face came too close
    warning_shown,
    landmarks,       \* results.multi_face_landmarks: None or the distance seen
    ipd_px,          \* distance measured last
    key,             \* value of the last waitKey(1) & 0xFF
    delivered,       \* keys waitKey returned in the current iteration
    now,             \* time.time()
    warnings,        \* "WARNING: Move back from the screen." lines printed
    eframes          \* frames read so far by the eye-strain loop

cashierVars == <<pc, counts, seen_objects, boxes, cls_name, new_box,
                 already_seen, subtotal, printed, error, frames, fed,
                 last_batch>>

eyeVars == <<epc, baseline_ipd, too_close_start, warning_shown, landmarks,
             ipd_px, key, delivered, now, warnings, eframes>>

vars == <<cashierVars, eyeVars>>

\* lines 71-73, before the first iteration
EyeInit ==
    /\ epc = "read"
    /\ baseline_ipd = None
    /\ too_close_start = None
    /\ warning_shown = FALSE
    /\ landmarks = None
    /\ ipd_px = None
    /\ key = "none"
    /\ delivered = {}
    /\ now = 0
    /\ warnings = 0
    /\ eframes = 0

State == [counts |-> counts, seen_objects |-> seen_objects]

Init ==
    /\ pc = "read"
    /\ counts = <<>>
    /\ seen_objects = <<>>
    /\ boxes = <<>>
    /\ cls_name = NoName
    /\ new_box = NoBox
    /\ already_seen = FALSE
    /\ subtotal = 0
    /\ printed = <<>>
    /\ error = "none"
    /\ frames = 0
    /\ fed = 0
    /\ last_batch = <<>>
    /\ EyeInit

\* ret, frame = cap.read() with ret true; results = model(frame, conf=0.5)
ReadFrame ==
    /\ pc = "read"
    /\ frames < MaxFrames
    /\ \E batch \in Batches(Min(MaxBatch, MaxDetections - fed)) :
          boxes' = batch
    /\ frames' = frames + 1
    /\ pc' = "boxes"
    /\ UNCHANGED <<counts, seen_objects, cls_name, new_box, already_seen,
                   subtotal, printed, error, fed>>
    /\ UNCHANGED <<last_batch, eyeVars>>

\* ret false: break
ReadFail ==
    /\ pc = "read"
    /\ pc' = "bill"
    /\ UNCHANGED <<counts, seen_objects, boxes, cls_name, new_box,
                   already_seen, subtotal, printed, error, frames, fed>>
    /\ UNCHANGED <<last_batch, eyeVars>>

\* one iteration of `for box in r.boxes`
Detect ==
    /\ pc = "boxes"
    /\ boxes # <<>>
    /\ LET det == Head(boxes) IN
        /\ cls_name' = det.cls
        /\ fed' = fed + 1
        /\ IF Raises(det)
           THEN \* the exception leaves run_cashier: no bill is printed
                /\ pc' = "crashed"
                /\ error' = "ValueError"
                /\ UNCHANGED <<boxes, counts, seen_objects, new_box,
                               already_seen>>
           ELSE LET st == Feed(State, det) IN
                /\ counts' = st.counts
                /\ seen_objects' = st.seen_objects
                /\ boxes' = Tail(boxes)
                /\ IF InPriceList(det.cls)
                   THEN /\ new_box' = IntBox(det.xyxy)
                        /\ already_seen' =
                              AlreadySeen(seen_objects, det.cls,
                                          IntBox(det.xyxy))
                   ELSE UNCHANGED <<new_box, already_seen>>
                /\ UNCHANGED <<pc, error>>
    /\ UNCHANGED <<subtotal, printed, frames>>
    /\ UNCHANGED <<last_batch, eyeVars>>

\* running counts drawn, imshow, waitKey(1): 'q' breaks, anything else loops
ShowFrame ==
    /\ pc = "boxes"
    /\ boxes = <<>>
    /\ \E pressed \in {"q", "none"} :
          pc' = IF pressed = "q" THEN "bill" ELSE "read"
    /\ UNCHANGED <<counts, seen_objects, boxes, cls_name, new_box,
                   already_seen, subtotal, printed, error, frames, fed>>
    /\ UNCHANGED <<last_batch, eyeVars>>

\* one iteration of `for item, count in counts.items()`
PrintLine ==
    /\ pc = "bill"
    /\ Len(printed) < Len(counts)
    /\ LET item == counts[Len(printed) + 1][1]
           count == counts[Len(printed) + 1][2]
       IN IF item \notin DOMAIN PRICE_LIST
          THEN \* KeyError out of PRICE_LIST[item]
               /\ pc' = "crashed"
               /\ error' = "KeyError"
               /\ UNCHANGED <<subtotal, printed>>
          ELSE LET price == PRICE_LIST[item]
                   line_total == price * count
               IN /\ subtotal' = Accumulate(subtotal, line_total)
                  /\ printed' = Append(printed,
                        [item |-> item, count |-> count, price |-> price,
                         line_total |-> line_total])
                  /\ UNCHANGED <<pc, error>>
    /\ UNCHANGED <<counts, seen_objects, boxes, cls_name, new_box,
                   already_seen, frames, fed>>
    /\ UNCHANGED <<last_batch, eyeVars>>

\* print(f"TOTAL: {subtotal:.2f}") and return
PrintTotal ==
    /\ pc = "bill"
    /\ Len(printed) = Len(counts)
    /\ pc' = "done"
    /\ UNCHANGED <<counts, seen_objects, boxes, cls_name, new_box,
                   already_seen, subtotal, printed, error, frames, fed>>
    /\ UNCHANGED <<last_batch, eyeVars>>

Next ==
    \/ ReadFrame
    \/ ReadFail
    \/ Detect
    \/ ShowFrame
    \/ PrintLine
    \/ PrintTotal

Spec == Init /\ [][Next]_vars

\* ------------------------------------------------ one frame in one step
\* what the loop over r.boxes reads and writes
Run == [counts |-> counts, seen_objects |-> seen_objects,
        cls_name |-> cls_name, new_box |-> new_box,
        already_seen |-> already_seen]

\* lines 43-60 for one detection that does not raise, locals included
Visit(run, det) ==
    LET st == Feed([counts |-> run.counts,
                    seen_objects |-> run.seen_objects], det)
        priced == InPriceList(det.cls)
    IN  [counts |-> st.counts,
         seen_objects |-> st.seen_objects,
         cls_name |-> det.cls,
         new_box |-> IF priced THEN IntBox(det.xyxy) ELSE run.new_box,
         already_seen |->
             IF priced
             THEN AlreadySeen(run.seen_objects, det.cls, IntBox(det.xyxy))
             ELSE run.already_seen]

\* for box in r.boxes, from the i-th box on
RECURSIVE ForEachBox(_, _, _)
ForEachBox(run, batch, i) ==
    IF i > Len(batch) THEN run
    ELSE ForEachBox(Visit(run, batch[i]), batch, i + 1)

\* variant: every detection of the frame is compared with the entries
\* stored before the frame only
RECURSIVE ForEachBoxSnapshot(_, _, _, _)
ForEachBoxSnapshot(run, batch, i, before) ==
    IF i > Len(batch) THEN run
    ELSE LET det == batch[i]
             box == IntBox(det.xyxy)
             st == [counts |-> run.counts, seen_objects |-> run.seen_objects]
             nxt == IF InPriceList(det.cls) /\ ~AlreadySeen(before, det.cls, box)
                    THEN Confirm(st, det.cls, box)
                    ELSE st
         IN  ForEachBoxSnapshot(
                 [run EXCEPT !.counts = nxt.counts,
                             !.seen_objects = nxt.seen_objects,
                             !.cls_name = det.cls],
                 batch, i + 1, before)

ProcessFrameSnapshot(run, batch) ==
    ForEachBoxSnapshot(run, batch, 1, run.seen_objects)

\* lines 41-60: the detections of one frame, in order
ProcessFrame(run, batch) == ForEachBox(run, batch, 1)

\* boxes whose centers are 0, 40 and 80 on the x axis and equal on the y axis
BoxX0  == <<Px(-20), Px(0), Px(20), Px(40)>>
BoxX40 == <<Px(20), Px(0), Px(60), Px(40)>>
BoxX80 == <<Px(60), Px(0), Px(100), Px(40)>>

\* detections of the frame-level specification; none of them raises
FrameDetections ==
    {Det("apple", b) : b \in {BoxX0, BoxX40, BoxX80}}
    \cup {Det("cake", BoxX40), Det("keyboard", BoxX40)}

FrameBatches == UNION {[1..k -> FrameDetections] : k \in 0..MaxFrameBatch}

\* lines 35-60 for a frame that raises nothing, in one step: read, detect,
\* visit every box of r.boxes
FrameStep ==
    /\ pc = "read"
    /\ frames < MaxFrames
    /\ \E batch \in FrameBatches :
          \E run \in {ProcessFrame(Run, batch)} :
          /\ counts' = run.counts
          /\ seen_objects' = run.seen_objects
          /\ cls_name' = run.cls_name
          /\ new_box' = run.new_box
          /\ already_seen' = run.already_seen
          /\ last_batch' = batch
    /\ frames' = frames + 1
    /\ pc' = "boxes"
    /\ boxes' = <<>>
    /\ UNCHANGED <<subtotal, printed, error, fed>>
    /\ UNCHANGED eyeVars

\* lines 67-77 with a waitKey that returns no 'q': back to cap.read()
FrameShow ==
    /\ pc = "boxes"
    /\ boxes = <<>>
    /\ pc' = "read"
    /\ last_batch' = <<>>
    /\ UNCHANGED <<counts, seen_objects, boxes, cls_name, new_box,
                   already_seen, subtotal, printed, error, frames, fed>>
    /\ UNCHANGED eyeVars

\* frames one after the other, until cap.read() fails
FrameNext ==
    \/ FrameStep
    \/ FrameShow
    \/ ReadFail

SpecFrame == Init /\ [][FrameNext]_vars

\* ------------------------------------------- Eye_strain_detector.py loop
\* the keys waitKey has returned in this iteration, once it returns k
Deliver(k) == IF k = "none" THEN delivered ELSE delivered \cup {k}

\* ret, frame = cap.read() with ret true; results = face_mesh.process(rgb).
\* Without a face the else branch (lines 153-154) only draws a text.
EyeRead ==
    /\ epc = "read"
    /\ eframes < MaxEyeFrames
    /\ eframes' = eframes + 1
    /\ \E dt \in 0..MaxTick :
          /\ now + dt <= MaxClock
          /\ now' = now + dt
    /\ \E seen \in {None} \cup {Some(d) : d \in IPDs} :
          /\ landmarks' = seen
          /\ epc' = IF seen = None THEN "show" ELSE "calibrate"
    /\ delivered' = {}
    /\ UNCHANGED <<baseline_ipd, too_close_start, warning_shown, ipd_px, key,
                   warnings>>
    /\ UNCHANGED cashierVars

\* ret false: break
EyeReadFail ==
    /\ epc = "read"
    /\ epc' = "done"
    /\ UNCHANGED <<baseline_ipd, too_close_start, warning_shown, landmarks,
                   ipd_px, key, delivered, now, warnings, eframes>>
    /\ UNCHANGED cashierVars

\* lines 92-117: the distance is measured, the first waitKey is read and
\* 'c' calibrates
EyeCalibrate ==
    /\ epc = "calibrate"
    /\ ipd_px' = landmarks
    /\ \E k \in Keys :
          /\ key' = k
          /\ delivered' = Deliver(k)
          /\ IF k = CALIBRATE_KEY
             THEN /\ baseline_ipd' = landmarks
                  /\ too_close_start' = None
                  /\ warning_shown' = FALSE
             ELSE UNCHANGED <<baseline_ipd, too_close_start, warning_shown>>
    /\ epc' = "check"
    /\ UNCHANGED <<landmarks, now, warnings, eframes>>
    /\ UNCHANGED cashierVars

\* lines 119-151: the too-close state machine
EyeCheck ==
    /\ epc = "check"
    /\ IF baseline_ipd = None
       THEN UNCHANGED <<too_close_start, warning_shown, warnings>>
       ELSE IF TooClose(ipd_px[1], baseline_ipd[1])
       THEN IF too_close_start = None
            THEN /\ too_close_start' = Some(now)
                 /\ warning_shown' = FALSE
                 /\ UNCHANGED warnings
            ELSE IF ShouldWarn(now - too_close_start[1], warning_shown)
                 THEN /\ warnings' = warnings + 1
                      /\ warning_shown' = TRUE
                      /\ UNCHANGED too_close_start
                 ELSE UNCHANGED <<too_close_start, warning_shown, warnings>>
       ELSE /\ too_close_start' = None
            /\ warning_shown' = FALSE
            /\ UNCHANGED warnings
    /\ epc' = "show"
    /\ UNCHANGED <<baseline_ipd, landmarks, ipd_px, key, delivered, now,
                   eframes>>
    /\ UNCHANGED cashierVars

\* lines 156-163: imshow, the second waitKey; 'q' breaks, 'c' passes
EyeShow ==
    /\ epc = "show"
    /\ \E k \in Keys :
          /\ key' = k
          /\ delivered' = Deliver(k)
          /\ epc' = IF k = QUIT_KEY THEN "done" ELSE "read"
    /\ UNCHANGED <<baseline_ipd, too_close_start, warning_shown, landmarks,
                   ipd_px, now, warnings, eframes>>
    /\ UNCHANGED cashierVars

EyeNext ==
    \/ EyeRead
    \/ EyeReadFail
    \/ EyeCalibrate
    \/ EyeCheck
    \/ EyeShow

SpecEye == Init /\ [][EyeNext]_vars

\* ---------------------------------------------------------------- helpers
Labels == DOMAIN PRICE_LIST \cup {d.cls : d \in Detections}

CountSeen(seen, label) ==
    Cardinality({i \in 1..Len(seen) : seen[i][1] = label})

IsPrefix(s, t) == Len(s) <= Len(t) /\ \A i \in 1..Len(s) : t[i] = s[i]

Priced(label) == label \in DOMAIN PRICE_LIST

\* a detection is about to be visited / the step that visits it
Visiting == pc = "boxes" /\ boxes # <<>>
Visits == Visiting /\ fed' = fed + 1

\* the detection visited is priced and its box unpacks to four integers
VisitingPricedBox ==
    Visiting /\ Priced(Head(boxes).cls) /\ UnpackOk(Head(boxes).xyxy)

\* some stored entry of label cls passes the proximity test against box
Matches(seen, cls, box) ==
    \E i \in 1..Len(seen) :
        seen[i][1] = cls /\ is_same_object(seen[i][2], box, DefaultThreshold)

OthersUnchanged(label) ==
    \A other \in Labels \ {label} : Get(counts', other) = Get(counts, other)

EmptySession == [counts |-> <<>>, seen_objects |-> <<>>]

RECURSIVE FeedAll(_, _)
FeedAll(st, dets) ==
    IF dets = <<>> THEN st ELSE FeedAll(Feed(st, Head(dets)), Tail(dets))

RECURSIVE FeedTimes(_, _, _)
FeedTimes(st, det, n) ==
    IF n = 0 THEN st ELSE FeedTimes(Feed(st, det), det, n - 1)

\* ----------------------------------------------------------------- claims

\* C1: in every state of the session, also between two detections of one
\* frame, counts[label] is the number of entries of seen_objects with that
\* label, for every label; before any detection both are empty.
C1_TallyMatchesSeen ==
    /\ \A label \in Labels : Get(counts, label) = CountSeen(seen_objects, label)
    /\ \A i \in 1..Len(counts) :
          /\ counts[i][2] = CountSeen(seen_objects, counts[i][1])
          /\ \A j \in 1..Len(counts) : counts[j][1] = counts[i][1] => j = i
    /\ fed = 0 => counts = <<>> /\ seen_objects = <<>>

C1_Witness ==
    /\ Visiting
    /\ Get(counts, "apple") = 2
    /\ Get(counts, "cake") = 1
    /\ Len(seen_objects) = 3

\* C2: every step leaves the entries of seen_objects in place and only
\* appends at the end, and no count ever decreases.
C2_AppendOnly ==
    [][/\ IsPrefix(seen_objects, seen_objects')
       /\ Len(seen_objects') <= Len(seen_objects) + 1
       /\ \A label \in Labels : Get(counts', label) >= Get(counts, label)]_vars

C2_Witness ==
    /\ Len(seen_objects) = 3
    /\ already_seen
    /\ fed = 4

\* the three frames of the scenario, one detection each, fed to an empty
\* session
C3_Scenario ==
    FeedAll(EmptySession,
            <<Det("apple", BoxA), Det("apple", BoxA2), Det("apple", BoxFar)>>)
        .counts = << <<"apple", 2>> >>

\* C3: visiting a priced detection (L, B): if a stored entry of label L
\* passes the proximity test against B nothing changes; otherwise counts[L]
\* grows by one, no other count changes and (L, B) is appended. The frames
\* apple(10,10,50,50), apple(12,11,52,51), apple(200,200,240,240) fed to an
\* empty session end with the tally {apple: 2}.
C3_UpdateRule ==
    /\ [][(VisitingPricedBox /\ Visits) =>
            LET L == Head(boxes).cls
                B == IntBox(Head(boxes).xyxy)
            IN  IF Matches(seen_objects, L, B)
                THEN counts' = counts /\ seen_objects' = seen_objects
                ELSE /\ Get(counts', L) = Get(counts, L) + 1
                     /\ OthersUnchanged(L)
                     /\ seen_objects' = Append(seen_objects, <<L, B>>)]_vars
    /\ []C3_Scenario

C3_Witness ==
    /\ frames = 3
    /\ counts = << <<"apple", 2>> >>
    /\ seen_objects = << <<"apple", IntBox(BoxA)>>, <<"apple", IntBox(BoxFar)>> >>
    /\ new_box = IntBox(BoxFar)
    /\ ~already_seen

\* the distance of two centers against a threshold, without abs()
TwiceCenterX(box) == box[1] + box[3]
TwiceCenterY(box) == box[2] + box[4]

StrictlyNearer(a, b, twice) == a - b < twice /\ b - a < twice

CentersNear(box1, box2, threshold) ==
    /\ StrictlyNearer(TwiceCenterX(box1), TwiceCenterX(box2), 2 * threshold)
    /\ StrictlyNearer(TwiceCenterY(box1), TwiceCenterY(box2), 2 * threshold)

IntBoxes == {IntBox(d.xyxy) : d \in {e \in Detections : UnpackOk(e.xyxy)}}

Thresholds == {DefaultThreshold - 1, DefaultThreshold, DefaultThreshold + 1}

C4_Test ==
    /\ \A b1 \in IntBoxes, b2 \in IntBoxes, t \in Thresholds :
          is_same_object(b1, b2, t) <=> CentersNear(b1, b2, t)
    /\ ~is_same_object(IntBox(BoxA), IntBox(BoxAt50), DefaultThreshold)
    /\ is_same_object(IntBox(BoxA), IntBox(BoxAt49), DefaultThreshold)
    /\ ~is_same_object(IntBox(BoxA), IntBox(BoxBelow), DefaultThreshold)

\* C4: the proximity test holds exactly when the centers differ by strictly
\* less than the threshold on the x axis and on the y axis: a detection whose
\* center is exactly the threshold away on both axes from the only stored box
\* of its label is counted, one that is threshold - 1 away is not.
C4_ProximityTest ==
    /\ [][(VisitingPricedBox /\ Visits) =>
            LET L == Head(boxes).cls
                B == IntBox(Head(boxes).xyxy)
                near == \E i \in 1..Len(seen_objects) :
                           /\ seen_objects[i][1] = L
                           /\ CentersNear(seen_objects[i][2], B,
                                          DefaultThreshold)
            IN  /\ already_seen' = near
                /\ near => seen_objects' = seen_objects
                /\ ~near => seen_objects' = Append(seen_objects, <<L, B>>)]_vars
    /\ []C4_Test

C4_Witness ==
    /\ seen_objects = << <<"apple", IntBox(BoxA)>>, <<"apple", IntBox(BoxAt50)>> >>
    /\ new_box = IntBox(BoxAt49)
    /\ already_seen
    /\ cls_name = "apple"

\* between two frames: N feeds of one detection leave what the first left
C5_RepeatedFeeds ==
    pc = "read" =>
        \A det \in Detections :
            (Priced(det.cls) /\ UnpackOk(det.xyxy)) =>
                \A n \in 1..MaxRepeat :
                    /\ FeedTimes(State, det, n) = Feed(State, det)
                    /\ seen_objects = <<>> =>
                          FeedTimes(State, det, n).counts
                              = << <<det.cls, 1>> >>

\* C5: a priced detection visited right after the same detection (same
\* label, same box) changes nothing, and any visit changes the count of its
\* label by 0 or 1; so N feeds in a row change the session as the first one
\* does, and N feeds to an empty session make the count of the label 1.
C5_IdempotentRedetection ==
    /\ [][(VisitingPricedBox /\ Visits) =>
            LET L == Head(boxes).cls
                B == IntBox(Head(boxes).xyxy)
            IN  /\ Get(counts', L) - Get(counts, L) \in {0, 1}
                /\ Len(seen_objects') - Len(seen_objects)
                      = Get(counts', L) - Get(counts, L)
                /\ (cls_name = L /\ new_box = B) =>
                      counts' = counts /\ seen_objects' = seen_objects
                /\ seen_objects = <<>> => counts' = << <<L, 1>> >>]_vars
    /\ []C5_RepeatedFeeds

C5_Witness ==
    /\ fed = 3
    /\ counts = << <<"apple", 1>> >>
    /\ seen_objects = << <<"apple", IntBox(BoxA)>> >>
    /\ new_box = IntBox(BoxA)
    /\ already_seen

\* the entries of one label, in order
SameLabel(seen, label) ==
    LET Own(e) == e[1] = label IN SelectSeq(seen, Own)

\* C6: whether a priced detection of label L is counted depends only on the
\* stored entries of label L: the outcome is the one the entries of label L
\* alone would give, and a detection at the very box of a stored entry of
\* another label is counted when no entry of label L is near.
C6_CrossLabelIndependence ==
    [][(VisitingPricedBox /\ Visits) =>
          LET L == Head(boxes).cls
              B == IntBox(Head(boxes).xyxy)
              own == SameLabel(seen_objects, L)
              counted == seen_objects' = Append(seen_objects, <<L, B>>)
          IN  /\ counted <=> ~Matches(own, L, B)
              /\ ~counted => seen_objects' = seen_objects
              /\ (/\ \E i \in 1..Len(seen_objects) :
                        seen_objects[i][1] # L /\ seen_objects[i][2] = B
                  /\ \A i \in 1..Len(own) :
                        ~CentersNear(own[i][2], B, DefaultThreshold))
                 => counted /\ Get(counts', L) = Get(counts, L) + 1]_vars

C6_Witness ==
    /\ seen_objects = << <<"cake", IntBox(BoxA)>>, <<"apple", IntBox(BoxA)>> >>
    /\ counts = << <<"cake", 1>>, <<"apple", 1>> >>
    /\ ~already_seen

\* only priced labels are keys of counts or labels of seen_objects
C7_OnlyPricedStored ==
    /\ \A i \in 1..Len(counts) : counts[i][1] \in DOMAIN PRICE_LIST
    /\ \A i \in 1..Len(seen_objects) : seen_objects[i][1] \in DOMAIN PRICE_LIST

\* C7: visiting a detection whose label is no key of PRICE_LIST changes
\* neither counts nor seen_objects and raises nothing, so every key of counts
\* and every label of seen_objects is a key of PRICE_LIST.
C7_UnpricedIgnored ==
    /\ [][(Visits /\ Head(boxes).cls \notin DOMAIN PRICE_LIST) =>
            /\ counts' = counts
            /\ seen_objects' = seen_objects
            /\ error' = "none"
            /\ pc' = "boxes"]_vars
    /\ []C7_OnlyPricedStored

C7_Witness ==
    /\ cls_name = "keyboard"
    /\ Len(seen_objects) = 2
    /\ fed = 3
    /\ pc = "boxes"

\* the sum of the line totals printed
RECURSIVE SumLineTotals(_)
SumLineTotals(lines) ==
    IF lines = <<>> THEN 0
    ELSE Head(lines).line_total + SumLineTotals(Tail(lines))

\* the lines printed so far and the running subtotal agree with the tally
C8_Bill ==
    /\ error # "KeyError"
    /\ \A i \in 1..Len(printed) :
          /\ i <= Len(counts)
          /\ printed[i].item = counts[i][1]
          /\ printed[i].count = counts[i][2]
          /\ printed[i].price = PRICE_LIST[counts[i][1]]
          /\ printed[i].line_total = PRICE_LIST[counts[i][1]] * counts[i][2]
    /\ subtotal = SumLineTotals(printed)
    /\ pc = "done" => Len(printed) = Len(counts)
    /\ (pc = "done" /\ counts = << <<"apple", 3>>, <<"cake", 1>> >>) =>
          /\ printed[1].line_total = 90
          /\ printed[2].line_total = 100
          /\ subtotal = 190

\* C8: the bill of a finished session has one line per key of the tally, in
\* the tally's order, with line total = unit price x count and a total that is
\* the sum of the line totals ({apple: 3, cake: 1} gives 90, 100 and 190); the
\* price lookup never fails, and printing the bill leaves the tally alone.
C8_ReceiptArithmetic ==
    /\ []C8_Bill
    /\ [][(pc \in {"bill", "done"}) =>
            (counts' = counts /\ seen_objects' = seen_objects)]_vars

C8_Witness ==
    /\ pc = "done"
    /\ counts = << <<"apple", 3>>, <<"cake", 1>> >>
    /\ subtotal = 190

\* C9: an empty batch, and a priced detection whose box lacks a coordinate
\* or holds a NaN, change neither counts nor seen_objects, raise nothing and
\* let the session go on.
C9_MalformedSkipped ==
    [][/\ (pc = "boxes" /\ boxes = <<>>) =>
             /\ counts' = counts
             /\ seen_objects' = seen_objects
             /\ error' = "none"
             /\ pc' \in {"read", "bill"}
       /\ (Visits /\ Priced(Head(boxes).cls) /\ ~UnpackOk(Head(boxes).xyxy)) =>
             /\ counts' = counts
             /\ seen_objects' = seen_objects
             /\ error' = "none"
             /\ pc' = "boxes"
             /\ boxes' = Tail(boxes)]_vars

\* the entry at which the scan of seen_objects stops
FirstMatch(seen, cls, box) ==
    CHOOSE i \in 1..Len(seen) :
        /\ seen[i][1] = cls
        /\ is_same_object(seen[i][2], box, DefaultThreshold)
        /\ \A k \in 1..(i - 1) :
              ~(seen[k][1] = cls
                /\ is_same_object(seen[k][2], box, DefaultThreshold))

\* the detection visited last was treated as already counted
JustMatched ==
    /\ pc = "boxes"
    /\ error = "none"
    /\ Priced(cls_name)
    /\ already_seen

\* C10 as stated: after a detection was treated as already counted, the box
\* stored for the entry it matched is the box of that detection.
C10_LastKnownBox ==
    JustMatched =>
        seen_objects[FirstMatch(seen_objects, cls_name, new_box)][2] = new_box

\* C10 amended: a detection treated as already counted changes no stored
\* entry, so the matched entry keeps the box of the detection that confirmed
\* it; and a detection of the label visited just before, nearer than the
\* threshold to that previous box, is still counted anew when no stored
\* entry of its label is near.
C10_FirstConfirmedBox ==
    [][(VisitingPricedBox /\ Visits) =>
          LET L == Head(boxes).cls
              B == IntBox(Head(boxes).xyxy)
          IN  /\ Matches(seen_objects, L, B) =>
                    /\ seen_objects' = seen_objects
                    /\ already_seen'
              /\ (/\ cls_name = L
                  /\ already_seen
                  /\ new_box # NoBox
                  /\ CentersNear(new_box, B, DefaultThreshold)
                  /\ ~Matches(seen_objects, L, B))
                 => /\ Len(seen_objects') = Len(seen_objects) + 1
                    /\ Get(counts', L) = Get(counts, L) + 1]_vars

\* an apple confirmed at (10,10,50,50) was matched again 49 px away and is
\* about to be seen 1 px further, 50 px from the stored box
C10_Witness ==
    /\ JustMatched
    /\ cls_name = "apple"
    /\ seen_objects = << <<"apple", IntBox(BoxA)>> >>
    /\ new_box = IntBox(BoxAt49)
    /\ boxes = <<Det("apple", BoxAt50)>>

\* C15: no two entries of seen_objects with the same label pass the
\* proximity test against each other, in either order: their centers are at
\* least the threshold apart on some axis; the test is symmetric in its boxes.
C15_PairwiseSeparated ==
    /\ \A i \in 1..Len(seen_objects), j \in 1..Len(seen_objects) :
          (i # j /\ seen_objects[i][1] = seen_objects[j][1]) =>
              /\ ~CentersNear(seen_objects[i][2], seen_objects[j][2],
                              DefaultThreshold)
              /\ ~is_same_object(seen_objects[i][2], seen_objects[j][2],
                                 DefaultThreshold)
    /\ \A i \in 1..Len(seen_objects) :
          new_box # NoBox =>
              (is_same_object(seen_objects[i][2], new_box, DefaultThreshold)
                 <=> is_same_object(new_box, seen_objects[i][2],
                                    DefaultThreshold))
    /\ fed = 0 =>
          \A b1 \in IntBoxes, b2 \in IntBoxes, t \in Thresholds :
              is_same_object(b1, b2, t) <=> is_same_object(b2, b1, t)

C15_Witness ==
    /\ Len(seen_objects) = 4
    /\ Get(counts, "apple") = 4

\* ---------------------------------------------- claims on whole frames

\* the frame just processed, before it is shown
FrameProcessed == pc = "boxes" /\ last_batch # <<>>

\* C13: processing the batch of the frame just processed a second time, same
\* detections in the same order, leaves counts and seen_objects as the first
\* processing left them.
C13_FrameIdempotent ==
    FrameProcessed =>
        LET again == ProcessFrame(Run, last_batch)
        IN  /\ again.counts = counts
            /\ again.seen_objects = seen_objects

\* a first frame that stored two items and saw one of them twice
C13_Witness ==
    /\ FrameProcessed
    /\ frames = 1
    /\ last_batch = <<Det("apple", BoxX0), Det("cake", BoxX40),
                      Det("apple", BoxX0)>>
    /\ counts = << <<"apple", 1>>, <<"cake", 1>> >>
    /\ Len(seen_objects) = 2

\* n consecutive frames, the i-th of which holds the i-th detection only
RECURSIVE SingleFrames(_, _, _)
SingleFrames(run, batch, i) ==
    IF i > Len(batch) THEN run
    ELSE SingleFrames(ProcessFrame(run, <<batch[i]>>), batch, i + 1)

\* two detections of one priced label that pass the proximity test
NearPair(batch) ==
    /\ Len(batch) = 2
    /\ InPriceList(batch[1].cls)
    /\ batch[1].cls = batch[2].cls
    /\ CentersNear(IntBox(batch[1].xyxy), IntBox(batch[2].xyxy),
                   DefaultThreshold)

\* C14: a frame whose batch is [d1, ..., dn] leaves the counts and
\* seen_objects that the n single-detection frames [d1], ..., [dn] leave, so
\* an entry appended by a detection is compared with the later detections of
\* the same frame, and two near detections of one label in one frame of an
\* empty session are counted once.
C14_FrameAsSingleFrames ==
    [][(pc = "read" /\ pc' = "boxes") =>
          LET single == SingleFrames(Run, last_batch', 1)
          IN  /\ counts' = single.counts
              /\ seen_objects' = single.seen_objects
              /\ (seen_objects = <<>> /\ NearPair(last_batch')) =>
                     /\ counts' = << <<last_batch'[1].cls, 1>> >>
                     /\ Len(seen_objects') = 1]_vars

\* the first frame held two apples 40 px apart, and one apple is stored
C14_Witness ==
    /\ FrameProcessed
    /\ frames = 1
    /\ last_batch = <<Det("apple", BoxX0), Det("apple", BoxX40)>>
    /\ counts = << <<"apple", 1>> >>
    /\ seen_objects = << <<"apple", IntBox(BoxX0)>> >>

\* the same three apples in two orders
Order_0_40_80 ==
    <<Det("apple", BoxX0), Det("apple", BoxX40), Det("apple", BoxX80)>>
Order_40_0_80 ==
    <<Det("apple", BoxX40), Det("apple", BoxX0), Det("apple", BoxX80)>>

\* C16: the tally depends on the order of the detections: with threshold 50
\* and equal y, the x-centers 0, 40, 80 give count 2 in the order 0, 40, 80
\* and count 1 in the order 40, 0, 80, in one frame or one frame each.
C16_OrderDependent ==
    /\ (FrameProcessed /\ frames = 1 /\ last_batch = Order_0_40_80) =>
           counts = << <<"apple", 2>> >>
    /\ (FrameProcessed /\ frames = 1 /\ last_batch = Order_40_0_80) =>
           counts = << <<"apple", 1>> >>
    /\ (pc = "read" /\ frames = 0) =>
           /\ SingleFrames(Run, Order_0_40_80, 1).counts = << <<"apple", 2>> >>
           /\ SingleFrames(Run, Order_40_0_80, 1).counts = << <<"apple", 1>> >>
           /\ ProcessFrame(Run, Order_0_40_80).counts
                 # ProcessFrame(Run, Order_40_0_80).counts

\* the session that saw the order 40, 0, 80 and stored one apple
C16_Witness ==
    /\ FrameProcessed
    /\ frames = 1
    /\ last_batch = Order_40_0_80
    /\ counts = << <<"apple", 1>> >>
    /\ seen_objects = << <<"apple", IntBox(BoxX40)>> >>

\* the session that saw the order 0, 40, 80 and stored two apples
C16_WitnessOther ==
    /\ FrameProcessed
    /\ frames = 1
    /\ last_batch = Order_0_40_80
    /\ counts = << <<"apple", 2>> >>
    /\ seen_objects = << <<"apple", IntBox(BoxX0)>>,
                         <<"apple", IntBox(BoxX80)>> >>

\* ------------------------------------------ claims on the eye-strain loop

\* a step in which waitKey returns k
WaitKeyReturns(k) ==
    /\ epc \in {"calibrate", "show"}
    /\ epc' # epc
    /\ key' = k

\* C11: a 'q' returned by waitKey ends the loop in the iteration it was
\* pressed in, with or without a face: no iteration that received a 'q' is
\* followed by another read.
C11_QuitEndsLoop ==
    QUIT_KEY \in delivered => epc # "read"

\* C12: every 'c' returned by waitKey sets baseline_ipd to the distance
\* measured in the current frame and resets too_close_start and
\* warning_shown.
C12_CalibrateKeyCalibrates ==
    [][WaitKeyReturns(CALIBRATE_KEY) =>
          /\ landmarks # None
          /\ baseline_ipd' = landmarks
          /\ too_close_start' = None
          /\ warning_shown' = FALSE]_vars

\* the step that prints the warning
Warns == warnings' = warnings + 1

\* a step that resets the too-close timer: a calibration, or a frame with a
\* face whose distance is at or below baseline x CLOSE_FACTOR
ResetStep ==
    \/ epc = "calibrate" /\ key' = CALIBRATE_KEY
    \/ /\ epc = "check"
       /\ baseline_ipd # None
       /\ ipd_px[1] * 100 <= baseline_ipd[1] * CLOSE_FACTOR_x100

\* C17: the warning is printed only in a frame with a face, with a baseline,
\* with the distance above baseline x CLOSE_FACTOR, and at least
\* SUSTAIN_SECONDS after too_close_start was set; it is printed at most once
\* between two resets (warning_shown is false before it, true after it, and
\* only a reset makes it false again); a frame without a face leaves
\* baseline_ipd, too_close_start and warning_shown unchanged.
C17_WarningOnlyWhenSustained ==
    [][/\ Warns =>
             /\ epc = "check"
             /\ landmarks # None
             /\ ipd_px = landmarks
             /\ baseline_ipd # None
             /\ ipd_px[1] * 100 > baseline_ipd[1] * CLOSE_FACTOR_x100
             /\ too_close_start # None
             /\ now - too_close_start[1] >= SUSTAIN_SECONDS
             /\ ~warning_shown
             /\ warning_shown'
             /\ too_close_start' = too_close_start
       /\ (warning_shown /\ ~warning_shown') => ResetStep
       /\ (too_close_start # None /\ too_close_start' = None) => ResetStep
       /\ warnings' \in {warnings, warnings + 1}
       /\ (epc # "read" /\ landmarks = None) =>
             /\ baseline_ipd' = baseline_ipd
             /\ too_close_start' = too_close_start
             /\ warning_shown' = warning_shown
             /\ warnings' = warnings]_vars

\* a warning was printed in the frame before; the face is still too close
\* and the delay is still exceeded, and no second warning is printed
C17_Witness ==
    /\ epc = "show"
    /\ warnings = 1
    /\ warning_shown
    /\ eframes = 4
    /\ landmarks # None
    /\ ipd_px[1] * 100 > baseline_ipd[1] * CLOSE_FACTOR_x100
    /\ now - too_close_start[1] >= SUSTAIN_SECONDS

====
